---------------------------- MODULE Spec2Model ----------------------------
(***************************************************************************)
(* A model of the product catalog controller                               *)
(* (src/controller/productController.js) and of the routes that expose it  *)
(* (src/unnamed/part_000).                                                 *)
(*                                                                         *)
(* Representation.                                                         *)
(*  - A JavaScript object (a request body, a query, a stored document, a   *)
(*    filter) is a function whose DOMAIN is the set of keys the object     *)
(*    has; a key that is `undefined' is a key outside the DOMAIN.          *)
(*  - Strings the code converts (parseInt, Number, split, toLowerCase) are *)
(*    sequences of one-character strings, so that the conversion is        *)
(*    computed; strings the code only tests or compares are TLA+ strings.  *)
(*  - A JavaScript number is a record [k, v]: k = "num" with the integer   *)
(*    v, or k = "NaN" or "Infinity".                                       *)
(***************************************************************************)
EXTENDS Integers, Sequences, FiniteSets, TLC

VARIABLES products, res, inflight

vars == <<products, res, inflight>>

-----------------------------------------------------------------------------
(* Bounds of the model *)

\* the largest number of documents the store holds
MaxProducts == 2

-----------------------------------------------------------------------------
(* JavaScript values *)

Num(n) == [k |-> "num", v |-> n]
NaN == [k |-> "NaN", v |-> 0]
Infinity == [k |-> "Infinity", v |-> 0]

IsFiniteNum(x) == x.k = "num"

\* x < y on JavaScript numbers: every comparison with NaN is false
NumLt(x, y) ==
  CASE x.k = "NaN" \/ y.k = "NaN" -> FALSE
    [] x.k = "num" /\ y.k = "num" -> x.v < y.v
    [] OTHER -> x.k = "num" /\ y.k = "Infinity"

NumLe(x, y) ==
  CASE x.k = "NaN" \/ y.k = "NaN" -> FALSE
    [] x.k = "num" /\ y.k = "num" -> x.v <= y.v
    [] OTHER -> x.k = y.k \/ NumLt(x, y)

\* x - y and x * y, on the values parseInt can produce (finite or NaN)
NumSub(x, y) == IF IsFiniteNum(x) /\ IsFiniteNum(y) THEN Num(x.v - y.v) ELSE NaN
NumMul(x, y) == IF IsFiniteNum(x) /\ IsFiniteNum(y) THEN Num(x.v * y.v) ELSE NaN

Digits == {"0", "1", "2", "3", "4", "5", "6", "7", "8", "9"}
DigitVal == [c \in Digits |->
  CASE c = "0" -> 0 [] c = "1" -> 1 [] c = "2" -> 2 [] c = "3" -> 3 [] c = "4" -> 4
    [] c = "5" -> 5 [] c = "6" -> 6 [] c = "7" -> 7 [] c = "8" -> 8 [] c = "9" -> 9]

Tail2(s, n) == SubSeq(s, n + 1, Len(s))

RECURSIVE SkipSpaces(_)
SkipSpaces(s) == IF s # <<>> /\ Head(s) = " " THEN SkipSpaces(Tail(s)) ELSE s

RECURSIVE DropTrailingSpaces(_)
DropTrailingSpaces(s) ==
  IF s # <<>> /\ s[Len(s)] = " " THEN DropTrailingSpaces(SubSeq(s, 1, Len(s) - 1)) ELSE s

\* the longest prefix of s made of decimal digits
RECURSIVE DigitPrefix(_)
DigitPrefix(s) ==
  IF s # <<>> /\ Head(s) \in Digits THEN <<Head(s)>> \o DigitPrefix(Tail(s)) ELSE <<>>

RECURSIVE DigitsValue(_)
DigitsValue(s) ==
  IF s = <<>> THEN 0 ELSE 10 * DigitsValue(SubSeq(s, 1, Len(s) - 1)) + DigitVal[s[Len(s)]]

\* parseInt(string): leading white space skipped, an optional sign, then the
\* leading decimal digits; NaN when there is none
parseInt(str) ==
  LET s == SkipSpaces(str)
      signed == s # <<>> /\ Head(s) \in {"+", "-"}
      body == IF signed THEN Tail(s) ELSE s
      ds == DigitPrefix(body)
  IN  IF ds = <<>> THEN NaN
      ELSE IF signed /\ Head(s) = "-" THEN Num(0 - DigitsValue(ds)) ELSE Num(DigitsValue(ds))

\* Number(string): white space trimmed; the empty string is 0; an optional sign
\* and decimal digits are that number; anything else is NaN
Number(str) ==
  LET s == DropTrailingSpaces(SkipSpaces(str))
      signed == s # <<>> /\ Head(s) \in {"+", "-"}
      body == IF signed THEN Tail(s) ELSE s
      ds == DigitPrefix(body)
  IN  IF s = <<>> THEN Num(0)
      ELSE IF ds = <<>> \/ ds # body THEN NaN
      ELSE IF Head(s) = "-" THEN Num(0 - DigitsValue(ds)) ELSE Num(DigitsValue(ds))

\* Math.ceil(total / limitNum) for a count total >= 0
MathCeilDiv(total, limitNum) ==
  CASE limitNum.k # "num" -> NaN
    [] limitNum.v = 0 -> IF total = 0 THEN NaN ELSE Infinity
    [] limitNum.v > 0 -> Num((total + limitNum.v - 1) \div limitNum.v)
    [] OTHER -> Num(0 - (total \div (0 - limitNum.v)))

\* String.prototype.split(','): the pieces between the commas
RECURSIVE split(_)
split(s) ==
  IF \A i \in 1..Len(s) : s[i] # ","
    THEN <<s>>
    ELSE LET i == CHOOSE j \in 1..Len(s) : s[j] = "," /\ \A h \in 1..(j - 1) : s[h] # ","
         IN  <<SubSeq(s, 1, i - 1)>> \o split(Tail2(s, i))

\* String.prototype.toLowerCase on the letters of the model's alphabet
LowerOf(c) == CASE c = "E" -> "e" [] c = "L" -> "l" [] c = "T" -> "t" [] c = "V" -> "v"
                [] OTHER -> c
toLowerCase(s) == [i \in 1..Len(s) |-> LowerOf(s[i])]


-----------------------------------------------------------------------------
(* Objects *)

Has(obj, key) == key \in DOMAIN obj

\* keys whose values are character sequences; the other string keys hold
\* TLA+ strings
SeqKeys == {"category", "brand", "minPrice", "maxPrice", "page", "limit"}

\* Mutant of Truthy: a key that is present counts, whatever its value
TruthyIfPresent(obj, key) == key \in DOMAIN obj

\* if (obj.key): the key is present and its string is not empty
Truthy(obj, key) ==
  Has(obj, key) /\ (IF key \in SeqKeys THEN obj[key] # <<>> ELSE obj[key] # "")

\* the object obj with the keys of upd added or replaced
Assign(obj, upd) ==
  [key \in DOMAIN obj \cup DOMAIN upd |-> IF key \in DOMAIN upd THEN upd[key] ELSE obj[key]]

\* the object obj without the keys outside keep
Pick(obj, keep) == [key \in DOMAIN obj \cap keep |-> obj[key]]

EmptyObject == [key \in {} |-> TRUE]

-----------------------------------------------------------------------------
(* The Product collection, as the controller uses it *)

\* the accounts upstream middleware and the vendor reference can name
UserIds == {"u1", "u2"}
UserDoc(id) == [_id |-> id, name |-> id, email |-> id]

\* collation of the product names of the model
NameRank(name) == CASE name = "alpha" -> 1 [] name = "beta" -> 2 [] OTHER -> 0

\* a text search finds the documents whose indexed text holds the term
TextMatch(doc, term) == Has(doc, "name") /\ doc.name = term

\* one condition of a filter, on one document
Cond(key, c, doc) ==
  CASE key = "$text" -> TextMatch(doc, c["$search"])
    [] key = "price" ->
         /\ Has(doc, "price")
         /\ Has(c, "$gte") => NumLe(c["$gte"], Num(doc.price))
         /\ Has(c, "$lte") => NumLe(Num(doc.price), c["$lte"])
    [] key = "brand" ->
         Has(doc, "brand") /\ \E i \in 1..Len(c["$in"]) : c["$in"][i] = doc.brand
    [] key = "stock" -> Has(doc, "stock") /\ doc.stock > c["$gt"]
    [] OTHER -> Has(doc, key) /\ doc[key] = c

Matches(filter, doc) == \A key \in DOMAIN filter : Cond(key, filter[key], doc)

\* Product.countDocuments(filter)
countDocuments(store, filter) ==
  Cardinality({id \in DOMAIN store : Matches(filter, store[id])})

\* Mutant of findOne: the query never matches
findOneNothing(store, filter) == {}

\* Product.findOne(filter): the ids of the documents it may return
findOne(store, filter) == {id \in DOMAIN store : Matches(filter, store[id])}

\* the value .sort() orders a document by; createdAt follows the order of
\* creation, which is the order of the ids
SortValue(doc, key) ==
  CASE key = "price" -> IF Has(doc, "price") THEN doc.price ELSE 0
    [] key = "createdAt" -> doc._id
    [] key = "name" -> IF Has(doc, "name") THEN NameRank(doc.name) ELSE 0
    [] OTHER -> 0

\* the orders .sort(sort) may return the documents ids in: ties in any order
Sorted(store, ids, sort) ==
  LET n == Cardinality(ids)
      key == CHOOSE key \in DOMAIN sort : TRUE
      Before(a, b) ==
        CASE key = "score" -> TRUE
          [] sort[key] = 1 -> SortValue(store[a], key) <= SortValue(store[b], key)
          [] OTHER -> SortValue(store[a], key) >= SortValue(store[b], key)
  IN  {s \in [1..n -> ids] :
         /\ \A i, j \in 1..n : i # j => s[i] # s[j]
         /\ \A i, j \in 1..n : i < j => Before(s[i], s[j])}

\* .skip(skip).limit(limit) on a sorted result: limit 0 is no limit, a negative
\* limit is its absolute value
Window(s, skip, limit) ==
  LET from == skip.v + 1
      size == IF limit.v < 0 THEN 0 - limit.v ELSE limit.v
      to == IF size = 0 \/ skip.v + size > Len(s) THEN Len(s) ELSE skip.v + size
  IN  SubSeq(s, from, to)

\* whether the store runs a query with this skip and limit: a NaN or a negative
\* skip is refused
Runs(skip, limit) == IsFiniteNum(skip) /\ IsFiniteNum(limit) /\ skip.v >= 0

\* Product.find(filter).sort(sort).skip(skip).limit(limit): the possible results
find(store, filter, sort, skip, limit) ==
  {[i \in DOMAIN Window(s, skip, limit) |-> store[Window(s, skip, limit)[i]]] :
     s \in Sorted(store, {id \in DOMAIN store : Matches(filter, store[id])}, sort)}

\* .populate('vendor', 'name email'); the reviews getProduct also populates
\* are not part of the documents of the model
populate(doc) ==
  IF Has(doc, "vendor") THEN Assign(doc, [vendor |-> UserDoc(doc.vendor)]) ELSE doc

\* .select('name category brand images price')
select(doc) == Pick(doc, {"_id", "name", "category", "brand", "images", "price"})

\* the value JSON.stringify writes for a number: null unless it is finite
null == [k |-> "null", v |-> 0]
toJSON(x) == IF IsFiniteNum(x) THEN x ELSE null

-----------------------------------------------------------------------------
(* getProducts: GET / *)

DefaultPage == <<"1">>
DefaultLimit == <<"1", "2">>

filter(query) ==
  LET f0 == [isActive |-> TRUE]
      f1 == IF Truthy(query, "search")
              THEN Assign(f0, "$text" :> ("$search" :> query.search)) ELSE f0
      f2 == IF Truthy(query, "category")
              THEN Assign(f1, [category |-> query.category]) ELSE f1
      gte == IF Truthy(query, "minPrice")
               THEN "$gte" :> Number(query.minPrice) ELSE EmptyObject
      lte == IF Truthy(query, "maxPrice")
               THEN "$lte" :> Number(query.maxPrice) ELSE EmptyObject
      f3 == IF Truthy(query, "minPrice") \/ Truthy(query, "maxPrice")
              THEN Assign(f2, [price |-> Assign(gte, lte)]) ELSE f2
      f4 == IF Truthy(query, "brand")
              THEN Assign(f3, [brand |-> "$in" :> split(query.brand)]) ELSE f3
      f5 == IF Has(query, "inStock") /\ query.inStock = "true"
              THEN Assign(f4, [stock |-> "$gt" :> 0]) ELSE f4
  IN  IF Has(query, "featured") /\ query.featured = "true"
        THEN Assign(f5, [isFeatured |-> TRUE]) ELSE f5

\* Mutant of sortOptions: the default branch leaves the ordering empty
sortOptionsNoDefault(query) ==
  CASE Has(query, "sortBy") /\ query.sortBy = "price_asc" -> "price" :> 1
    [] Has(query, "sortBy") /\ query.sortBy = "price_desc" -> "price" :> -1
    [] Has(query, "sortBy") /\ query.sortBy = "rating" -> "ratings.average" :> -1
    [] Has(query, "sortBy") /\ query.sortBy = "newest" -> "createdAt" :> -1
    [] Has(query, "sortBy") /\ query.sortBy = "name" -> "name" :> 1
    [] OTHER -> EmptyObject

sortOptions(query) ==
  CASE Has(query, "sortBy") /\ query.sortBy = "price_asc" -> "price" :> 1
    [] Has(query, "sortBy") /\ query.sortBy = "price_desc" -> "price" :> -1
    [] Has(query, "sortBy") /\ query.sortBy = "rating" -> "ratings.average" :> -1
    [] Has(query, "sortBy") /\ query.sortBy = "newest" -> "createdAt" :> -1
    [] Has(query, "sortBy") /\ query.sortBy = "name" -> "name" :> 1
    [] OTHER -> "createdAt" :> -1

pageNum(query) == parseInt(IF Has(query, "page") THEN query.page ELSE DefaultPage)
limitNum(query) == parseInt(IF Has(query, "limit") THEN query.limit ELSE DefaultLimit)
\* Mutant of skip: the page is not brought back to base 0
skipFromOne(query) == NumMul(pageNum(query), limitNum(query))

skip(query) == NumMul(NumSub(pageNum(query), Num(1)), limitNum(query))

totalPages(total, query) == MathCeilDiv(total, limitNum(query))

\* the error-forwarding wrapper's answer to a query the store refuses
Unhandled(op, sent) == [op |-> op, status |-> 500, success |-> FALSE, find |-> sent]

\* the responses getProducts can give
getProducts(store, query) ==
  LET sent == [filter |-> filter(query), sort |-> sortOptions(query),
               skip |-> skip(query), limit |-> limitNum(query)]
      total == countDocuments(store, sent.filter)
  IN  IF ~Runs(sent.skip, sent.limit)
        THEN {Assign(Unhandled("getProducts", sent), [query |-> query])}
        ELSE {[op |-> "getProducts", status |-> 200, success |-> TRUE,
               query |-> query, find |-> sent,
               data |-> [i \in DOMAIN found |-> populate(found[i])],
               pagination |->
                 [current |-> toJSON(pageNum(query)),
                  totalPages |-> toJSON(totalPages(total, query)),
                  totalProducts |-> total,
                  hasNext |-> NumLt(pageNum(query), totalPages(total, query)),
                  hasPrev |-> NumLt(Num(1), pageNum(query))]] :
              found \in find(store, sent.filter, sent.sort, sent.skip, sent.limit)}

-----------------------------------------------------------------------------
(* getProduct: GET /:id *)

NotFound(op, id) ==
  [op |-> op, id |-> id, status |-> 404, success |-> FALSE,
   message |-> "Product not found"]

getProduct(store, id) ==
  IF id \notin DOMAIN store
    THEN NotFound("getProduct", id)
    ELSE [op |-> "getProduct", id |-> id, status |-> 200, success |-> TRUE,
          data |-> populate(store[id])]

-----------------------------------------------------------------------------
(* createProduct: POST / *)

SkuExists(op, body) ==
  [op |-> op, body |-> body, status |-> 400, success |-> FALSE,
   message |-> "SKU already exists"]

\* what the Product schema sets on a new document
SchemaDefaults == [isActive |-> TRUE]

\* new Product({...}): the destructured fields that are defined, and the
\* defaults the handler supplies. Of the fields the handler copies unchanged,
\* the model keeps name, price, category, subcategory, brand and sku; of those
\* it defaults, images, stock, isFeatured and vendor. A key of the body that is
\* not destructured (isActive) is dropped.
newProduct(body, user) ==
  LET given == Pick(body, {"name", "price", "category", "subcategory", "brand", "sku"})
      supplied ==
        [images |-> <<>>,
         stock |-> IF Has(body, "stock") /\ body.stock # 0 THEN body.stock ELSE 0,
         isFeatured |-> IF Has(body, "isFeatured") /\ body.isFeatured THEN TRUE ELSE FALSE,
         vendor |-> IF Truthy(body, "vendor") THEN body.vendor ELSE user]
  IN  Assign(SchemaDefaults, Assign(given, supplied))

\* whether the Product schema puts a unique index on sku: it does not, the
\* handlers' pre-check is the only guard
UniqueSkuIndex == FALSE

\* whether the store accepts sku on the document id
Accepts(store, id, sku) ==
  UniqueSkuIndex =>
    ~\E other \in DOMAIN store \ {id} : Has(store[other], "sku") /\ store[other].sku = sku

\* the error-forwarding wrapper's answer to a write the store refuses
Refused(op, body) == [op |-> op, body |-> body, status |-> 500, success |-> FALSE]

\* product.save() of a new document: it gets the next identity
save(store, doc) ==
  LET id == Cardinality(DOMAIN store) + 1
  IN  [i \in DOMAIN store \cup {id} |->
         IF i = id THEN Assign(doc, [_id |-> id]) ELSE store[i]]

createProduct(store, body, user) ==
  IF Truthy(body, "sku") /\ findOne(store, [sku |-> body.sku]) # {}
    THEN [products |-> store, res |-> SkuExists("createProduct", body)]
    ELSE IF Has(body, "sku") /\ ~Accepts(store, 0, body.sku)
      THEN [products |-> store, res |-> Refused("createProduct", body)]
      ELSE LET saved == save(store, newProduct(body, user))
               id == Cardinality(DOMAIN store) + 1
           IN  [products |-> saved,
                res |-> [op |-> "createProduct", body |-> body, status |-> 201,
                         success |-> TRUE, data |-> saved[id]]]

-----------------------------------------------------------------------------
(* updateProduct: PUT /:id *)

\* Product.findByIdAndUpdate(id, body, {new: true}): the fields of the body
\* are set on the document
findByIdAndUpdate(store, id, body) == [store EXCEPT ![id] = Assign(@, body)]

\* Mutant of SkuChanges: the product's own SKU is not told apart
SkuSupplied(product, body) == Truthy(body, "sku")

\* req.body.sku && req.body.sku !== product.sku
SkuChanges(product, body) ==
  Truthy(body, "sku") /\ (Has(product, "sku") => body.sku # product.sku)

updateProduct(store, id, body) ==
  IF id \notin DOMAIN store
    THEN [products |-> store, res |-> Assign(NotFound("updateProduct", id), [body |-> body])]
    ELSE IF SkuChanges(store[id], body) /\ findOne(store, [sku |-> body.sku]) # {}
      THEN [products |-> store,
            res |-> Assign(SkuExists("updateProduct", body), [id |-> id])]
      ELSE IF Has(body, "sku") /\ ~Accepts(store, id, body.sku)
        THEN [products |-> store,
              res |-> Assign(Refused("updateProduct", body), [id |-> id])]
        ELSE LET updated == findByIdAndUpdate(store, id, body)
             IN  [products |-> updated,
                  res |-> [op |-> "updateProduct", id |-> id, body |-> body,
                           status |-> 200, success |-> TRUE, data |-> updated[id]]]

-----------------------------------------------------------------------------
(* deleteProduct: DELETE /:id *)

\* Mutant of deleteProduct: the flag is flipped instead of cleared
deleteProductToggle(store, id) ==
  IF id \notin DOMAIN store
    THEN [products |-> store, res |-> NotFound("deleteProduct", id)]
    ELSE [products |-> [store EXCEPT ![id] = Assign(@, [isActive |-> ~@.isActive])],
          res |-> [op |-> "deleteProduct", id |-> id, status |-> 200, success |-> TRUE,
                   message |-> "Product deleted successfully"]]

deleteProduct(store, id) ==
  IF id \notin DOMAIN store
    THEN [products |-> store, res |-> NotFound("deleteProduct", id)]
    ELSE [products |-> [store EXCEPT ![id] = Assign(@, [isActive |-> FALSE])],
          res |-> [op |-> "deleteProduct", id |-> id, status |-> 200, success |-> TRUE,
                   message |-> "Product deleted successfully"]]

-----------------------------------------------------------------------------
(* getSearchSuggestions, getProductsByCategory, getFeaturedProducts *)

SuggestionsLimit == 10
FeaturedLimit == 8

getSearchSuggestions(store, query) ==
  IF ~Truthy(query, "q")
    THEN {[op |-> "getSearchSuggestions", query |-> query, status |-> 200,
           success |-> TRUE, data |-> <<>>]}
    ELSE LET sent == [filter |-> Assign("$text" :> ("$search" :> query.q),
                                        [isActive |-> TRUE]),
                      sort |-> "score" :> "textScore",
                      skip |-> Num(0), limit |-> Num(SuggestionsLimit)]
         IN  {[op |-> "getSearchSuggestions", query |-> query, status |-> 200,
               success |-> TRUE, find |-> sent,
               data |-> [i \in DOMAIN found |-> select(found[i])]] :
              found \in find(store, sent.filter, sent.sort, sent.skip, sent.limit)}

\* Mutant of categoryFilter: the active flag is left out
categoryFilterAll(params, query) ==
  LET f0 == [category |-> toLowerCase(params.category)]
  IN  IF Truthy(query, "subcategory")
        THEN Assign(f0, [subcategory |-> query.subcategory]) ELSE f0

categoryFilter(params, query) ==
  LET f0 == [category |-> toLowerCase(params.category), isActive |-> TRUE]
  IN  IF Truthy(query, "subcategory")
        THEN Assign(f0, [subcategory |-> query.subcategory]) ELSE f0

getProductsByCategory(store, params, query) ==
  LET sent == [filter |-> categoryFilter(params, query), sort |-> "createdAt" :> -1,
               skip |-> skip(query), limit |-> limitNum(query)]
      total == countDocuments(store, sent.filter)
      request == [params |-> params, query |-> query]
  IN  IF ~Runs(sent.skip, sent.limit)
        THEN {Assign(Unhandled("getProductsByCategory", sent), request)}
        ELSE {[op |-> "getProductsByCategory", status |-> 200, success |-> TRUE,
               params |-> params, query |-> query, find |-> sent,
               data |-> found,
               pagination |->
                 [current |-> toJSON(pageNum(query)),
                  totalPages |-> toJSON(totalPages(total, query)),
                  totalProducts |-> total]] :
              found \in find(store, sent.filter, sent.sort, sent.skip, sent.limit)}

getFeaturedProducts(store) ==
  LET sent == [filter |-> [isFeatured |-> TRUE, isActive |-> TRUE, stock |-> "$gt" :> 0],
               sort |-> "createdAt" :> -1, skip |-> Num(0), limit |-> Num(FeaturedLimit)]
  IN  {[op |-> "getFeaturedProducts", status |-> 200, success |-> TRUE, find |-> sent,
        data |-> found] :
       found \in find(store, sent.filter, sent.sort, sent.skip, sent.limit)}

-----------------------------------------------------------------------------
(* The requests of the model *)

\* req.user.id, set by upstream middleware
Callers == {"u1"}

BaseBody ==
  [name |-> "alpha", price |-> 10, category |-> <<"e", "l">>, brand |-> <<"a">>,
   stock |-> 1, isFeatured |-> TRUE]

CreateBodies ==
  {BaseBody,
   Assign(BaseBody, [sku |-> ""]),
   Assign(BaseBody, [sku |-> "A", isActive |-> FALSE])}

UpdateBodies ==
  {EmptyObject,
   [sku |-> ""], [sku |-> "A"],
   [isActive |-> TRUE],
   [sku |-> "B", isActive |-> TRUE]}

\* the ids a request can name: those the store can hold and one it never holds
Ids == 1..(MaxProducts + 1)

ListQueries ==
  {EmptyObject,
   [inStock |-> "true"],
   [maxPrice |-> <<"5", "0">>, sortBy |-> "price_desc"],
   [category |-> <<"e", "l">>, page |-> <<"2">>, limit |-> <<"1">>]}

SuggestionQueries == {EmptyObject, [q |-> ""], [q |-> "alpha"]}

CategoryParams == {[category |-> <<"e", "l">>], [category |-> <<"E", "L">>]}
CategoryQueries ==
  {EmptyObject, [subcategory |-> "tv"], [page |-> <<"2">>, limit |-> <<"1">>]}

-----------------------------------------------------------------------------
(* The routes: each request runs its handler to completion *)

NoResponse == [op |-> "none"]
NoRequests == <<>>

Init ==
  /\ products = EmptyObject
  /\ res = NoResponse
  /\ inflight = NoRequests

\* a handler that writes answers, and leaves the store as it wrote it
Write(outcome) ==
  /\ DOMAIN outcome.products \subseteq 1..MaxProducts
  /\ products' = outcome.products
  /\ res' = outcome.res

\* a handler that reads gives one of its responses
Read(responses) == res' \in responses

RouteList ==
  \E query \in ListQueries :
    /\ Read(getProducts(products, query))
    /\ UNCHANGED <<products, inflight>>

RouteSuggestions ==
  \E query \in SuggestionQueries :
    /\ Read(getSearchSuggestions(products, query))
    /\ UNCHANGED <<products, inflight>>

RouteCategory ==
  \E params \in CategoryParams, query \in CategoryQueries :
    /\ Read(getProductsByCategory(products, params, query))
    /\ UNCHANGED <<products, inflight>>

RouteFeatured ==
  /\ Read(getFeaturedProducts(products))
  /\ UNCHANGED <<products, inflight>>

RouteGet ==
  \E id \in Ids :
    /\ Read({getProduct(products, id)})
    /\ UNCHANGED <<products, inflight>>

RoutePost ==
  \E body \in CreateBodies, user \in Callers :
    /\ Write(createProduct(products, body, user))
    /\ UNCHANGED inflight

RoutePut ==
  \E id \in Ids, body \in UpdateBodies :
    /\ Write(updateProduct(products, id, body))
    /\ UNCHANGED inflight

RouteDelete ==
  \E id \in Ids :
    /\ Write(deleteProduct(products, id))
    /\ UNCHANGED inflight

Next ==
  \/ RouteList
  \/ RouteSuggestions
  \/ RouteCategory
  \/ RouteFeatured
  \/ RouteGet
  \/ RoutePost
  \/ RoutePut
  \/ RouteDelete

Spec == Init /\ [][Next]_vars

-----------------------------------------------------------------------------
(* One listing request against a catalog (SpecQuery) *)

\* the values of each query parameter of GET /: absent, empty, and supplied
SearchOpts == {EmptyObject, [search |-> ""], [search |-> "alpha"]}
CategoryOpts == {EmptyObject, [category |-> <<>>], [category |-> <<"e", "l">>]}
MinPriceOpts ==
  {EmptyObject, [minPrice |-> <<>>], [minPrice |-> <<"1", "0">>],
   [minPrice |-> <<"1", "x">>]}
MaxPriceOpts ==
  {EmptyObject, [maxPrice |-> <<>>], [maxPrice |-> <<"5", "0">>],
   [maxPrice |-> <<"a", "b", "c">>]}
BrandOpts == {EmptyObject, [brand |-> <<>>], [brand |-> <<"a", ",", "b">>]}
InStockOpts == {EmptyObject, [inStock |-> "true"], [inStock |-> "false"]}
FeaturedOpts == {EmptyObject, [featured |-> "true"], [featured |-> "false"]}
SortByOpts ==
  {EmptyObject, [sortBy |-> ""], [sortBy |-> "price_asc"], [sortBy |-> "price_desc"],
   [sortBy |-> "rating"], [sortBy |-> "newest"], [sortBy |-> "name"],
   [sortBy |-> "PRICE_ASC"]}
PageOpts ==
  {EmptyObject, [page |-> <<"1">>], [page |-> <<"2">>], [page |-> <<"3">>],
   [page |-> <<"0">>], [page |-> <<"x">>]}
LimitOpts ==
  {EmptyObject, [limit |-> <<"1">>], [limit |-> <<"2">>], [limit |-> <<"1", "0">>],
   [limit |-> <<"0">>], [limit |-> <<"x">>]}

\* every combination of the filter parameters, with the default sort and page
FilterQueries ==
  {Assign(a, Assign(b, Assign(c, Assign(d, Assign(e, Assign(f, g)))))) :
     a \in SearchOpts, b \in CategoryOpts, c \in MinPriceOpts, d \in MaxPriceOpts,
     e \in BrandOpts, f \in InStockOpts, g \in FeaturedOpts}

\* every combination of sort, page and limit, alone and with a filter
PageQueries ==
  {Assign(a, Assign(b, Assign(c, d))) :
     a \in SortByOpts, b \in PageOpts, c \in LimitOpts,
     d \in {EmptyObject, [inStock |-> "true"]}}

CategoryPageQueries == {Assign(b, c) : b \in PageOpts, c \in LimitOpts}

CatalogBodies ==
  {BaseBody,
   Assign(BaseBody, [sku |-> "A"]),
   [name |-> "beta", price |-> 50, category |-> <<"E", "l">>, brand |-> <<"b">>,
    sku |-> "B", subcategory |-> "tv", vendor |-> "u2"]}

\* the stores that up to n create and delete requests lead to
RECURSIVE Catalogs(_)
Catalogs(n) ==
  IF n = 0 THEN {EmptyObject}
  ELSE LET before == Catalogs(n - 1)
       IN  before
           \cup {createProduct(store, body, user).products :
                   store \in before, body \in CatalogBodies, user \in Callers}
           \cup UNION {{deleteProduct(store, id).products : id \in DOMAIN store} :
                         store \in before}

InitQuery ==
  /\ products \in {store \in Catalogs(MaxProducts + 1) :
                     DOMAIN store \subseteq 1..MaxProducts}
  /\ res = NoResponse
  /\ inflight = NoRequests

QueryList ==
  /\ res = NoResponse
  /\ \E query \in FilterQueries \cup PageQueries : Read(getProducts(products, query))
  /\ UNCHANGED <<products, inflight>>

QueryCategory ==
  /\ res = NoResponse
  /\ \E params \in CategoryParams, query \in CategoryPageQueries :
       Read(getProductsByCategory(products, params, query))
  /\ UNCHANGED <<products, inflight>>

NextQuery == QueryList \/ QueryCategory

SpecQuery == InitQuery /\ [][NextQuery]_vars

-----------------------------------------------------------------------------
(* Concurrent create and update requests (SpecConc): each await of a handler
   is one step on the store, and the steps of different requests interleave *)

\* the number of requests of a behaviour
MaxRequests == 3

Requests == DOMAIN inflight

At(r, op, pc) == inflight[r].op = op /\ inflight[r].pc = pc

Goto(r, pc) == inflight' = [inflight EXCEPT ![r].pc = pc]

Answer(r, status) ==
  inflight' = [inflight EXCEPT ![r].pc = "done", ![r].status = status]

Arrive(request) ==
  /\ Len(inflight) < MaxRequests
  /\ inflight' = Append(inflight, request)

\* createProduct up to its first await: findOne when the body has a SKU,
\* save when it has none
PostArrives ==
  \E body \in CreateBodies, user \in Callers :
    /\ Arrive([op |-> "createProduct", body |-> body, user |-> user, status |-> 0,
               pc |-> IF Truthy(body, "sku") THEN "findOne" ELSE "save"])
    /\ UNCHANGED <<products, res>>

\* await Product.findOne({ sku })
CreateFindOne ==
  \E r \in Requests :
    /\ At(r, "createProduct", "findOne")
    /\ IF findOne(products, [sku |-> inflight[r].body.sku]) # {}
         THEN Answer(r, 400) ELSE Goto(r, "save")
    /\ UNCHANGED <<products, res>>

\* await product.save()
CreateSave ==
  \E r \in Requests :
    /\ At(r, "createProduct", "save")
    /\ Cardinality(DOMAIN products) < MaxProducts
    /\ IF Has(inflight[r].body, "sku") /\ ~Accepts(products, 0, inflight[r].body.sku)
         THEN Answer(r, 500) /\ UNCHANGED products
         ELSE /\ products' = save(products, newProduct(inflight[r].body, inflight[r].user))
              /\ Answer(r, 201)
    /\ UNCHANGED res

\* updateProduct up to its first await
PutArrives ==
  \E id \in Ids, body \in UpdateBodies :
    /\ Arrive([op |-> "updateProduct", id |-> id, body |-> body, status |-> 0,
               pc |-> "findById"])
    /\ UNCHANGED <<products, res>>

\* await Product.findById(req.params.id), then the test on the SKU
UpdateFindById ==
  \E r \in Requests :
    /\ At(r, "updateProduct", "findById")
    /\ IF inflight[r].id \notin DOMAIN products
         THEN Answer(r, 404)
         ELSE IF SkuChanges(products[inflight[r].id], inflight[r].body)
           THEN Goto(r, "findOne") ELSE Goto(r, "findByIdAndUpdate")
    /\ UNCHANGED <<products, res>>

\* await Product.findOne({ sku: req.body.sku })
UpdateFindOne ==
  \E r \in Requests :
    /\ At(r, "updateProduct", "findOne")
    /\ IF findOne(products, [sku |-> inflight[r].body.sku]) # {}
         THEN Answer(r, 400) ELSE Goto(r, "findByIdAndUpdate")
    /\ UNCHANGED <<products, res>>

\* await Product.findByIdAndUpdate(req.params.id, req.body, ...)
UpdateWrite ==
  \E r \in Requests :
    /\ At(r, "updateProduct", "findByIdAndUpdate")
    /\ IF Has(inflight[r].body, "sku")
            /\ ~Accepts(products, inflight[r].id, inflight[r].body.sku)
         THEN Answer(r, 500) /\ UNCHANGED products
         ELSE /\ products' = findByIdAndUpdate(products, inflight[r].id, inflight[r].body)
              /\ Answer(r, 200)
    /\ UNCHANGED res

NextConc ==
  \/ PostArrives
  \/ CreateFindOne
  \/ CreateSave
  \/ PutArrives
  \/ UpdateFindById
  \/ UpdateFindOne
  \/ UpdateWrite

SpecConc == Init /\ [][NextConc]_vars

-----------------------------------------------------------------------------
(* Properties of the routes run one request at a time (Spec) *)

\* the object has the key, with a string that is not the empty string
NonEmpty(obj, key) ==
  /\ key \in DOMAIN obj
  /\ obj[key] # (IF key \in {"category", "brand", "minPrice", "maxPrice"} THEN <<>> ELSE "")

\* some stored document holds this SKU
Held(store, sku) == \E id \in DOMAIN store : Has(store[id], "sku") /\ store[id].sku = sku

\* some stored document other than id holds this SKU
HeldByOther(store, id, sku) ==
  \E other \in DOMAIN store \ {id} : Has(store[other], "sku") /\ store[other].sku = sku

\* the response document got is the stored document doc, its vendor populated
SameRecord(got, doc) ==
  /\ DOMAIN got = DOMAIN doc
  /\ \A key \in DOMAIN doc \ {"vendor"} : got[key] = doc[key]
  /\ got.vendor._id = doc.vendor

\* the step added exactly one document, the one the response returns, and
\* getProduct on its id returns it
Created ==
  /\ res'.status = 201
  /\ \E id \in DOMAIN products' \ DOMAIN products :
       /\ DOMAIN products' = DOMAIN products \cup {id}
       /\ res'.data = products'[id]
       /\ res'.data._id = id
  /\ \A id \in DOMAIN products : products'[id] = products[id]
  /\ getProduct(products', res'.data._id).status = 200
  /\ SameRecord(getProduct(products', res'.data._id).data, res'.data)

\* a GET /:id that follows a 201 and names the id it returned gives that record
ReadBack ==
  (/\ res.op = "createProduct" /\ res.status = 201
   /\ res'.op = "getProduct" /\ res'.id = res.data._id)
    => res'.status = 200 /\ SameRecord(res'.data, res.data)

Rejected == res'.status = 400 /\ products' = products

\* C1 as stated: createProduct answers 201, adds exactly one record and
\* getProduct on the returned id returns it when no stored product holds the
\* body's SKU, and answers 400 leaving the store unchanged when one does.
C1_AsStated ==
  [][/\ res'.op = "createProduct" =>
          IF Has(res'.body, "sku") /\ Held(products, res'.body.sku)
            THEN Rejected ELSE Created
     /\ ReadBack]_vars

\* C1, amended: createProduct answers 400 and leaves the store unchanged when
\* the body's SKU is not empty and a stored product holds it; in every other
\* case (no SKU, an empty SKU, a SKU no stored product holds) it answers 201,
\* adds exactly one record, and getProduct on the returned id returns it.
C1_CreateRoundTrip ==
  [][/\ res'.op = "createProduct" =>
          IF NonEmpty(res'.body, "sku") /\ Held(products, res'.body.sku)
            THEN Rejected ELSE Created
     /\ ReadBack]_vars

\* a POST has been refused for the SKU of a record an earlier POST created,
\* which GET /:id returns
C1_Witness ==
  /\ res.op = "createProduct" /\ res.status = 400
  /\ res.body.sku = "A"
  /\ \E id \in DOMAIN products :
       /\ Has(products[id], "sku") /\ products[id].sku = "A"
       /\ getProduct(products, id).status = 200
       /\ getProduct(products, id).data.sku = "A"

\* C3: every document a listing returns (getProducts, getSearchSuggestions,
\* getProductsByCategory, getFeaturedProducts) is active in the store the
\* listing read; an inactive product is in no listing response.
C3_ListingsActive ==
  res.op \in {"getProducts", "getSearchSuggestions", "getProductsByCategory",
              "getFeaturedProducts"} /\ res.status = 200
    => \A i \in DOMAIN res.data :
         /\ res.data[i]._id \in DOMAIN products
         /\ products[res.data[i]._id].isActive = TRUE
         /\ Has(res.data[i], "isActive") => res.data[i].isActive = TRUE

\* a listing has returned a document while the store holds a soft-deleted one
C3_Witness ==
  /\ res.op = "getProductsByCategory" /\ res.status = 200
  /\ Len(res.data) = 1
  /\ \E id \in DOMAIN products :
       ~products[id].isActive /\ products[id].category = <<"e", "l">>

\* C4: deleteProduct on a stored id answers success and sets isActive false,
\* changing no other field and no other record and removing nothing; run again
\* it answers success and leaves the store as the first run left it; and
\* getProduct on the id still returns the record.
C4_DeleteIdempotent ==
  [][res'.op = "deleteProduct" /\ res'.id \in DOMAIN products =>
       LET id == res'.id
           again == deleteProduct(products', id)
       IN  /\ res'.status = 200
           /\ DOMAIN products' = DOMAIN products
           /\ \A other \in DOMAIN products \ {id} : products'[other] = products[other]
           /\ products'[id].isActive = FALSE
           /\ DOMAIN products'[id] = DOMAIN products[id]
           /\ \A key \in DOMAIN products[id] \ {"isActive"} :
                products'[id][key] = products[id][key]
           /\ again.res.status = 200
           /\ again.products = products'
           /\ getProduct(again.products, id).status = 200
           /\ SameRecord(getProduct(again.products, id).data, products'[id])]_vars

\* a product has been soft-deleted and is read back by id
C4_Witness ==
  /\ res.op = "getProduct" /\ res.status = 200
  /\ res.data.isActive = FALSE
  /\ deleteProduct(products, res.id).products = products

\* the update replaced exactly the fields of the body on the one record
Replaced ==
  LET id == res'.id
      body == res'.body
  IN  /\ res'.status = 200
      /\ DOMAIN products' = DOMAIN products
      /\ \A other \in DOMAIN products \ {id} : products'[other] = products[other]
      /\ DOMAIN products'[id] = DOMAIN products[id] \cup DOMAIN body
      /\ \A key \in DOMAIN body : products'[id][key] = body[key]
      /\ \A key \in DOMAIN products[id] \ DOMAIN body :
           products'[id][key] = products[id][key]

\* the body's SKU is not the product's own
Differs(product, body) == ~Has(product, "sku") \/ body.sku # product.sku

\* C10 as stated: updateProduct answers 404 for an id with no record, 400 for
\* a body SKU that differs from the product's own and that another record
\* holds, changing nothing in both cases; otherwise it replaces exactly the
\* fields of the body on that record.
C10_AsStated ==
  [][res'.op = "updateProduct" =>
       IF res'.id \notin DOMAIN products
         THEN res'.status = 404 /\ products' = products
         ELSE IF /\ Has(res'.body, "sku")
                 /\ Differs(products[res'.id], res'.body)
                 /\ HeldByOther(products, res'.id, res'.body.sku)
           THEN Rejected ELSE Replaced]_vars

\* C10, amended: the 400 is given for a body SKU that is not empty, differs
\* from the product's own and is held by another record; an empty body SKU is
\* written like any other field.
C10_UpdateContract ==
  [][res'.op = "updateProduct" =>
       IF res'.id \notin DOMAIN products
         THEN res'.status = 404 /\ products' = products
         ELSE IF /\ NonEmpty(res'.body, "sku")
                 /\ Differs(products[res'.id], res'.body)
                 /\ HeldByOther(products, res'.id, res'.body.sku)
           THEN Rejected ELSE Replaced]_vars

\* an update has been refused for a SKU another record holds, and the store
\* holds a record whose SKU an update changed
C10_Witness ==
  /\ res.op = "updateProduct" /\ res.status = 400
  /\ \E id \in DOMAIN products : Has(products[id], "sku") /\ products[id].sku = "B"

-----------------------------------------------------------------------------
(* Properties of one listing request (SpecQuery) *)

\* the keys of a filter that condition the query parameter param
KeysFor(supplied) ==
  {"isActive"}
    \cup (IF supplied["search"] THEN {"$text"} ELSE {})
    \cup (IF supplied["category"] THEN {"category"} ELSE {})
    \cup (IF supplied["minPrice"] \/ supplied["maxPrice"] THEN {"price"} ELSE {})
    \cup (IF supplied["brand"] THEN {"brand"} ELSE {})
    \cup (IF supplied["inStock"] THEN {"stock"} ELSE {})
    \cup (IF supplied["featured"] THEN {"isFeatured"} ELSE {})

\* the filter f holds isActive = true and one condition for each parameter
\* that supplied marks, and nothing else
ExactFilter(f, query, supplied) ==
  /\ DOMAIN f = KeysFor(supplied)
  /\ f.isActive = TRUE
  /\ supplied["search"] => f["$text"] = ("$search" :> query.search)
  /\ supplied["category"] => f.category = query.category
  /\ Has(f, "price") =>
       /\ Has(f.price, "$gte") <=> supplied["minPrice"]
       /\ Has(f.price, "$lte") <=> supplied["maxPrice"]
       /\ DOMAIN f.price \subseteq {"$gte", "$lte"}
  /\ supplied["brand"] =>
       /\ DOMAIN f.brand = {"$in"}
       /\ \A i \in DOMAIN f.brand["$in"] : \A j \in DOMAIN f.brand["$in"][i] :
            f.brand["$in"][i][j] # ","
  /\ supplied["inStock"] => f.stock = ("$gt" :> 0)
  /\ supplied["featured"] => f.isFeatured = TRUE

FilterParams == {"search", "category", "minPrice", "maxPrice", "brand"}

\* C5 as stated: the filter of getProducts holds isActive = true plus exactly
\* one condition per supplied parameter and none for an absent one; inStock and
\* featured add theirs only for the literal string "true".
C5_AsStated ==
  res.op = "getProducts" =>
    ExactFilter(res.find.filter, res.query,
      [param \in FilterParams |-> Has(res.query, param)]
        @@ [param \in {"inStock", "featured"} |->
              Has(res.query, param) /\ res.query[param] = "true"])

\* C5, amended: the filter holds isActive = true plus exactly one condition per
\* parameter supplied with a non-empty value, and none for a parameter that is
\* absent or the empty string; inStock and featured add theirs only for the
\* literal string "true".
C5_FilterExact ==
  res.op = "getProducts" =>
    ExactFilter(res.find.filter, res.query,
      [param \in FilterParams |-> NonEmpty(res.query, param)]
        @@ [param \in {"inStock", "featured"} |->
              Has(res.query, param) /\ res.query[param] = "true"])

\* a request that supplies some parameters, one of them empty, and leaves
\* others out has been answered
C5_Witness ==
  /\ res.op = "getProducts"
  /\ DOMAIN res.query = {"search", "category", "maxPrice", "inStock", "featured"}
  /\ res.query.category = <<>> /\ res.query.search = "alpha"
  /\ res.query.inStock = "true" /\ res.query.featured = "false"
  /\ DOMAIN res.find.filter = {"isActive", "$text", "price", "stock"}

\* the string holds a character that is no digit
NotNumeric(str) == \E i \in DOMAIN str : str[i] \notin Digits

\* C6: a minPrice or maxPrice that does not parse as a number is rejected with
\* a validation error, and no query with a NaN price bound reaches the store.
C6_AsStated ==
  (/\ res.op = "getProducts"
   /\ \E param \in {"minPrice", "maxPrice"} :
        Has(res.query, param) /\ NotNumeric(res.query[param]))
    => res.status = 400 /\ ~Has(res, "find")

\* the ordering is the one field with the one direction
Orders(sort, key, direction) == DOMAIN sort = {key} /\ sort[key] = direction

\* C7: the sort resolution is total: price_asc is price ascending, price_desc
\* price descending, rating ratings.average descending, newest createdAt
\* descending, name name ascending, every other value or none createdAt
\* descending; no sortBy gives an error or an empty ordering.
C7_SortTotal ==
  res.op = "getProducts" =>
    LET sort == res.find.sort
        token == IF Has(res.query, "sortBy") THEN res.query.sortBy ELSE "undefined"
    IN  /\ token = "price_asc" => Orders(sort, "price", 1)
        /\ token = "price_desc" => Orders(sort, "price", -1)
        /\ token = "rating" => Orders(sort, "ratings.average", -1)
        /\ token = "newest" => Orders(sort, "createdAt", -1)
        /\ token = "name" => Orders(sort, "name", 1)
        /\ token \notin {"price_asc", "price_desc", "rating", "newest", "name"}
             => Orders(sort, "createdAt", -1)
        /\ ~Has(res.query, "page") /\ ~Has(res.query, "limit") => res.status = 200

\* an unrecognized token has been resolved
C7_Witness ==
  /\ res.op = "getProducts" /\ res.status = 200
  /\ Has(res.query, "sortBy") /\ res.query.sortBy = "PRICE_ASC"
  /\ res.find.sort["createdAt"] = -1

\* the value of a decimal string of one or two digits
Decimal(str) ==
  IF Len(str) = 1 THEN DigitVal[str[1]] ELSE 10 * DigitVal[str[1]] + DigitVal[str[2]]

PositiveInt(str) ==
  /\ Len(str) \in {1, 2}
  /\ \A i \in DOMAIN str : str[i] \in Digits
  /\ Decimal(str) > 0

\* the page and the limit a query asks for, when both are positive integers
PageOf(query) == IF Has(query, "page") THEN Decimal(query.page) ELSE 1
LimitOf(query) == IF Has(query, "limit") THEN Decimal(query.limit) ELSE 12

PositivePaging(query) ==
  /\ Has(query, "page") => PositiveInt(query.page)
  /\ Has(query, "limit") => PositiveInt(query.limit)

\* pages is ceil(total / limit)
IsCeil(pages, total, limit) ==
  pages >= 0 /\ pages * limit >= total /\ (pages - 1) * limit < total

\* what getProducts and getProductsByCategory compute from page, limit and total
Paginated(zeroTotal) ==
  LET page == PageOf(res.query)
      limit == LimitOf(res.query)
      total == Cardinality({id \in DOMAIN products :
                              Matches(res.find.filter, products[id])})
      pagination == res.pagination
  IN  /\ res.status = 200
      /\ res.find.skip = Num((page - 1) * limit)
      /\ res.find.limit = Num(limit)
      /\ Len(res.data) <= limit
      /\ pagination.current = Num(page)
      /\ pagination.totalProducts = total
      /\ pagination.totalPages.k = "num"
      /\ IsCeil(pagination.totalPages.v, total, limit)
      /\ ~Has(res.query, "page") /\ ~Has(res.query, "limit") => res.find.skip = Num(0)
      /\ res.op = "getProducts" =>
           /\ pagination.hasNext = (page < pagination.totalPages.v)
           /\ pagination.hasPrev = (page > 1)
      /\ total = 0 => zeroTotal

\* C8 as stated: for a positive integer page and limit and any total,
\* getProducts skips (page-1)*limit and returns current = page, totalPages =
\* ceil(total/limit), totalProducts = total, hasNext = (page < totalPages),
\* hasPrev = (page > 1); total = 0 gives totalPages 0, hasNext false and
\* hasPrev false; the defaults page 1, limit 12 skip 0.
C8_AsStated ==
  res.op \in {"getProducts", "getProductsByCategory"} /\ PositivePaging(res.query) =>
    Paginated(/\ res.pagination.totalPages = Num(0)
              /\ res.op = "getProducts" =>
                   ~res.pagination.hasNext /\ ~res.pagination.hasPrev)

\* C8, amended: as stated, except that total = 0 gives totalPages 0 and
\* hasNext false, and hasPrev false on page 1 only: on a later page hasPrev is
\* true, as page > 1 says. getProductsByCategory computes skip, current,
\* totalPages and totalProducts the same way.
C8_Pagination ==
  res.op \in {"getProducts", "getProductsByCategory"} /\ PositivePaging(res.query) =>
    Paginated(/\ res.pagination.totalPages = Num(0)
              /\ res.op = "getProducts" =>
                   /\ ~res.pagination.hasNext
                   /\ PageOf(res.query) = 1 => ~res.pagination.hasPrev)

\* the second page of two has been returned
C8_Witness ==
  /\ res.op = "getProducts" /\ res.status = 200
  /\ Has(res.query, "page") /\ res.query.page = <<"2">>
  /\ Has(res.query, "limit") /\ res.query.limit = <<"1">>
  /\ res.find.skip = Num(1)
  /\ res.pagination.totalPages = Num(2)
  /\ res.pagination.hasPrev /\ ~res.pagination.hasNext

\* C9: when limit resolves to 0, totalPages in the response of getProducts and
\* of getProductsByCategory is a defined finite integer for every total.
C9_AsStated ==
  /\ res.op \in {"getProducts", "getProductsByCategory"}
  /\ res.status = 200
  /\ res.find.limit = Num(0)
  => res.pagination.totalPages.k = "num"

-----------------------------------------------------------------------------
(* Properties of concurrent requests (SpecConc) *)

\* C2: under any interleaving of concurrent createProduct and updateProduct
\* requests, no two stored products hold the same non-empty SKU.
C2_AsStated ==
  \A a, b \in DOMAIN products :
    (a # b /\ NonEmpty(products[a], "sku") /\ Has(products[b], "sku"))
      => products[a].sku # products[b].sku

=============================================================================
